---- MODULE Spec2Model ----
(***************************************************************************)
(* A model of the relay actor of crates/nostr-sdk/src/relay/mod.rs: the    *)
(* connection state machine, the reconnect supervisor, the writer and      *)
(* reader tasks of each connection, the command queue, the subscription    *)
(* book and the request layer that correlates replies on the broadcast     *)
(* notification bus.                                                       *)
(*                                                                         *)
(* A step of the model is a stretch of code between two points where the   *)
(* task can be suspended or overtaken by a task on another worker thread:  *)
(* the transport connect, a socket write, a channel receive, the           *)
(* supervisor's sleep.                                                     *)
(***************************************************************************)
EXTENDS Integers, Sequences, FiniteSets, TLC

----------------------------------------------------------------------------
\* Bounds of the model.

\* Capacity of the command queue.  The program uses mpsc::channel(1024)
\* (mod.rs:321); the model keeps the queue small enough to be filled.
QueueCap == 2
\* Connection attempts explored (stats.attempts is capped by the guards).
MaxAttempts == 2
\* Supervisor tasks alive at the same time.
MaxSupervisors == 2
\* Calls of connect, stop and terminate explored.
MaxConnectCalls == 2
MaxStopCalls == 1
MaxTerminateCalls == 1
\* SendMsg and Batch commands accepted from send_msg and batch_msg.
MaxCmds == 2
\* Capacity of the broadcast notification bus and of the pool channel, both
\* created by the pool.
BusCap == 1
PoolCap == 1
\* Notifications of other relays that the pool publishes on the bus.
MaxOthers == 1

\* Events the relay at the other end sends for one subscription
MaxEvents == 3
\* The largest n of FilterOptions::WaitForEventsAfterEOSE(n) a caller passes
MaxAfterEose == 1

----------------------------------------------------------------------------
\* Values.

Conns == 1..MaxAttempts

NoCmd == [type |-> "None", n |-> 0, msgs |-> <<>>, i |-> 0]

\* ClientMessage::Event, ClientMessage::Req, ClientMessage::Close
EventMsg(e) == [kind |-> "EVENT", id |-> e, filters |-> <<>>]
ReqMsg(s, f) == [kind |-> "REQ", id |-> s, filters |-> f]
CloseMsg(s) == [kind |-> "CLOSE", id |-> s, filters |-> <<>>]

\* RelayEvent, paired with the ghost number n of its acceptance by the queue
SendMsgCmd(n, m) == [type |-> "SendMsg", n |-> n, msgs |-> <<m>>, i |-> 0]
BatchCmd(n, ms) == [type |-> "Batch", n |-> n, msgs |-> ms, i |-> 0]
CloseCmd == [type |-> "Close", n |-> 0, msgs |-> <<>>, i |-> 0]
StopCmd == [type |-> "Stop", n |-> 0, msgs |-> <<>>, i |-> 0]
TerminateCmd == [type |-> "Terminate", n |-> 0, msgs |-> <<>>, i |-> 0]

\* InternalSubscriptionId: Default and one Custom id
InternalIds == {"default", "custom"}

\* The strings converted to and from an InternalSubscriptionId
Strings ==
    {"default", "pool", "", "Default", "POOL", "pool ", " default", "custom",
     "defaultpool", "a", "b", "relay"}

\* InternalSubscriptionId as a value: Default, Pool, Custom(c)
IdDefault == [tag |-> "Default", c |-> ""]
IdPool == [tag |-> "Pool", c |-> ""]
IdCustom(c) == [tag |-> "Custom", c |-> c]
InternalSubscriptionIds == {IdDefault, IdPool} \cup {IdCustom(c) : c \in Strings}

\* A conversion that does not know Pool
from_string_no_pool(s) ==
    IF s = "default" THEN IdDefault ELSE IdCustom(s)

\* impl From<S> for InternalSubscriptionId
from_string(s) ==
    CASE s = "default" -> IdDefault
      [] s = "pool" -> IdPool
      [] OTHER -> IdCustom(s)

\* impl fmt::Display for InternalSubscriptionId
display(id) ==
    CASE id.tag = "Default" -> "default"
      [] id.tag = "Pool" -> "pool"
      [] OTHER -> id.c

\* Vec<Filter>: the empty list and two different non-empty lists
FilterLists == {<<>>, <<1>>, <<2>>}

\* A key the book does not hold (HashMap::get gives None)
NoSub == [id |-> 0, filters |-> <<>>]

\* RelayMessage::Ok and RelayPoolNotification::Message(url, msg); `own` tells
\* whether url is this relay's url
OkMsg(e, st) == [kind |-> "OK", id |-> e, status |-> st]
Notification(own, m) == [own |-> own, msg |-> m]

\* A receiver of the notification bus: `behind` notifications wait for it, and
\* `lagged` tells that the bus has dropped one it had not received
NoReceiver == [behind |-> 0, lagged |-> FALSE]

\* RelayMessage::Event {subscription_id, event} and
\* RelayMessage::EndOfStoredEvents(subscription_id)
SubEventMsg(s, e) == [kind |-> "SUBEVENT", sub |-> s, event |-> e]
EoseMsg(s) == [kind |-> "EOSE", sub |-> s]

\* FilterOptions
ExitOnEOSE == [type |-> "ExitOnEOSE", n |-> 0]
WaitForEventsAfterEOSE(n) == [type |-> "WaitForEventsAfterEOSE", n |-> n]
WaitDurationAfterEOSE == [type |-> "WaitDurationAfterEOSE", n |-> 0]
FilterOptions ==
    {ExitOnEOSE, WaitDurationAfterEOSE}
        \cup {WaitForEventsAfterEOSE(n) : n \in 0..MaxAfterEose}

\* No get_events_of / req_events_of call has been made.  `got` is the events
\* given to the callback, `gotAtEose` how many of them before the EOSE, and
\* `handled` what handle_events_of returned.
NoGetEvents ==
    [pc |-> "idle", kind |-> "get", id |-> 0, opt |-> ExitOnEOSE, rx |-> NoReceiver,
     counter |-> 0, received_eose |-> FALSE, got |-> <<>>, gotAtEose |-> 0,
     handled |-> "none", result |-> "none"]

\* The relay at the other end serves no subscription.  `pre` is the number of
\* events it sent before its EOSE.
NoPeerSub == [id |-> 0, conn |-> 0, sent |-> 0, eose |-> FALSE, pre |-> 0, closed |-> FALSE]

\* No send_event / batch_event call has been made
NoSendEvent == [pc |-> "idle", id |-> 0, rx |-> NoReceiver, result |-> "none"]
NoBatchEvent ==
    [pc |-> "idle", ids |-> {}, missing |-> {}, published |-> {},
     not_published |-> {}, rx |-> NoReceiver, result |-> "none"]

VARIABLES
    opts,                       \* RelayOptions: [read, write]
    status,                     \* RelayStatus
    scheduled_for_stop,         \* stop intent
    scheduled_for_termination,  \* terminate intent
    queue,                      \* the command queue (relay_sender / relay_receiver)
    attempts,                   \* stats.attempts
    success,                    \* stats.success
    sup,                        \* supervisor tasks: how many are at each position
    caller,                     \* position of the caller inside connect(true)
    sock,                       \* per connection: the socket
    writer,                     \* per connection: the writer task
    cur,                        \* per connection: the command its writer is handling
    reader,                     \* per connection: the reader task
    subscriptions,              \* the subscription book
    nextSubId,                  \* SubscriptionId::generate(): the ids handed out so far
    subscriber,                 \* the internal id a subscribe call is about to resubscribe
    inbox,                      \* per connection: inbound frames the reader has not read
    poolq,                      \* the pool channel (pool_sender)
    bus,                        \* the notification bus: the notifications it retains
    busReplies,                 \* ghost: the <<event id, status>> of this relay's Ok
                                \* replies published on the bus so far
    served,                     \* how many frames of the wire the peer has handled
    others,                     \* notifications of other relays published so far
    se,                         \* the send_event call
    be,                         \* the batch_event call
    ge,                         \* the get_events_of / req_events_of call
    peer,                       \* the subscription the relay at the other end serves
    wire,                       \* ghost: the frames written, in order, <<conn, n, i, msg>>
    accepted,                   \* ghost: SendMsg/Batch commands accepted so far
    calls                       \* ghost: the lifecycle calls made so far

intentVars == <<scheduled_for_stop, scheduled_for_termination>>
statsVars == <<attempts, success>>
taskVars == <<sup, caller>>
connVars == <<sock, writer, cur, reader>>
bookVars == <<subscriptions, nextSubId, subscriber>>

reqVars == <<inbox, poolq, bus, busReplies, served, others, se, be, ge, peer>>

vars == <<opts, status, intentVars, queue, statsVars, taskVars, connVars,
          bookVars, reqVars, wire, accepted, calls>>

Statuses ==
    {"Initialized", "Connected", "Connecting", "Disconnected", "Stopped", "Terminated"}

\* RelayOptions the model starts from: read and write, read only, write only.
OptionSets ==
    {[read |-> TRUE, write |-> TRUE], [read |-> TRUE, write |-> FALSE],
     [read |-> FALSE, write |-> TRUE]}

\* No conversion of an internal id has been made
NoConv ==
    [start |-> "none", step |-> 0, text0 |-> "", id0 |-> IdDefault, text |-> "",
     id |-> IdDefault]

\* No send_msg(msg, Some(t)) has been made.  `n` is the number of the command
\* the queue accepted for the call and `val` what the writer sent on its oneshot
NoAck == [pc |-> "idle", n |-> 0, val |-> "none", result |-> "none"]

\* The record of the calls made so far: nothing yet
NoCalls ==
    [connect |-> 0, wait |-> FALSE, stop |-> 0, terminate |-> 0, stopAt |-> "none",
     attemptsAtStop |-> 0, err |-> "none", conv |-> NoConv, ack |-> NoAck,
     connecting |-> 0, connected |-> 0]

\* Relay::new
InitRelay ==
    /\ opts \in OptionSets
    /\ status = "Initialized"
    /\ scheduled_for_stop = FALSE
    /\ scheduled_for_termination = FALSE
    /\ queue = <<>>
    /\ attempts = 0
    /\ success = 0
    /\ sup = [p \in {"loop", "try", "counted", "connecting", "connected"} |-> 0]
    /\ caller = "idle"
    /\ sock = [c \in Conns |-> "none"]
    /\ writer = [c \in Conns |-> "none"]
    /\ cur = [c \in Conns |-> NoCmd]
    /\ reader = [c \in Conns |-> "none"]
    /\ subscriptions = [k \in InternalIds |-> NoSub]
    /\ nextSubId = 0
    /\ subscriber = "none"
    /\ inbox = [c \in Conns |-> <<>>]
    /\ poolq = <<>>
    /\ bus = <<>>
    /\ busReplies = {}
    /\ served = 0
    /\ others = 0
    /\ se = NoSendEvent
    /\ be = NoBatchEvent
    /\ ge = NoGetEvents
    /\ peer = NoPeerSub
    /\ wire = <<>>
    /\ accepted = 0

\* Relay::new: no call has been made
Init ==
    /\ InitRelay
    /\ calls = NoCalls

----------------------------------------------------------------------------
\* The command queue.

\* A channel that takes one command more than its capacity
HasRoomOffByOne(q) == Len(q) <= QueueCap

\* Relay::queue, against the channel's capacity: whether try_send has room
HasRoom(q) == Len(q) < QueueCap

\* Relay::send_relay_event: try_send never blocks; a full queue refuses
send_relay_event(q, cmd) == IF HasRoom(q) THEN Append(q, cmd) ELSE q

\* Relay::disconnect / stop / terminate: the statuses without a live connection
IsDown(s) == s \in {"Disconnected", "Stopped", "Terminated"}

----------------------------------------------------------------------------
\* The subscription book.

\* HashMap::contains_key
Has(book, k) == book[k].id # 0

\* The keys of the book
Keys(book) == {k \in InternalIds : Has(book, k)}

\* The orders in which a HashMap of these keys may be iterated
Orders(S) ==
    {o \in [1..Cardinality(S) -> S] : \A a, b \in 1..Cardinality(S) : a # b => o[a] # o[b]}

\* Relay::resubscribe_all, after its read check: iterate the snapshot `book` in
\* the order `order`; send_msg(REQ, None) for every entry with filters, and
\* return at the first one the queue refuses.  Gives the queue and the count of
\* accepted commands.
RECURSIVE resubscribe_loop(_, _, _, _)
resubscribe_loop(order, book, q, n) ==
    IF order = <<>> THEN [queue |-> q, accepted |-> n]
    ELSE LET sub == book[Head(order)] IN
         IF sub.filters = <<>> THEN resubscribe_loop(Tail(order), book, q, n)
         ELSE IF HasRoom(q)
              THEN resubscribe_loop(Tail(order), book,
                       Append(q, SendMsgCmd(n + 1, ReqMsg(sub.id, sub.filters))), n + 1)
              ELSE [queue |-> q, accepted |-> n]

----------------------------------------------------------------------------
\* connect, the supervisor and the connection attempt.

SupCount ==
    sup["loop"] + sup["try"] + sup["counted"] + sup["connecting"] + sup["connected"]

\* thread::spawn of the supervisor loop in Relay::connect
SpawnSupervisor(s) == [s EXCEPT !["loop"] = @ + 1]

\* Relay::connect: both intents are cleared first, whatever the status; a relay
\* that is Initialized, Stopped or Terminated then either begins a synchronous
\* attempt (wait_for_connection) or becomes Disconnected, and gets a supervisor.
Connect(wait) ==
    /\ calls.connect < MaxConnectCalls
    /\ wait => caller = "idle"
    /\ scheduled_for_stop' = FALSE
    /\ scheduled_for_termination' = FALSE
    /\ calls' = [calls EXCEPT !.connect = @ + 1, !.wait = wait]
    /\ IF status \in {"Initialized", "Stopped", "Terminated"}
       THEN /\ SupCount < MaxSupervisors
            /\ IF wait
               THEN /\ caller' = "try"
                    /\ UNCHANGED <<status, sup>>
               ELSE /\ status' = "Disconnected"
                    /\ sup' = SpawnSupervisor(sup)
                    /\ UNCHANGED caller
       ELSE UNCHANGED <<status, sup, caller>>
    /\ UNCHANGED <<opts, reqVars, queue, statsVars, connVars, bookVars, wire, accepted>>

\* One turn of the supervisor loop up to its status check: a pending stop or
\* terminate intent ends the loop with the status set and the intent cleared;
\* Stopped or Terminated ends it; Disconnected calls try_connect; any other
\* status goes to sleep.
SupervisorTick ==
    /\ sup["loop"] > 0
    /\ IF scheduled_for_stop
       THEN /\ status' = "Stopped"
            /\ scheduled_for_stop' = FALSE
            /\ sup' = [sup EXCEPT !["loop"] = @ - 1]
            /\ UNCHANGED scheduled_for_termination
       ELSE IF scheduled_for_termination
       THEN /\ status' = "Terminated"
            /\ scheduled_for_termination' = FALSE
            /\ sup' = [sup EXCEPT !["loop"] = @ - 1]
            /\ UNCHANGED scheduled_for_stop
       ELSE /\ sup' = CASE status = "Disconnected" ->
                            [sup EXCEPT !["loop"] = @ - 1, !["try"] = @ + 1]
                         [] status \in {"Stopped", "Terminated"} ->
                            [sup EXCEPT !["loop"] = @ - 1]
                         [] OTHER -> sup
            /\ UNCHANGED <<status, intentVars>>
    /\ UNCHANGED <<opts, reqVars, queue, statsVars, caller, connVars, bookVars, wire,
                   accepted, calls>>

\* Who runs try_connect: a supervisor, or the caller of connect(true)
Runners == {"sup", "caller"}

At(who, pos) == IF who = "sup" THEN sup[pos] > 0 ELSE caller = pos

\* A counter that misses the attempt
attempt_not_counted(n) == n

\* RelayConnectionStats::new_attempt: attempts.fetch_add(1)
new_attempt(n) == n + 1

\* set_status(Connecting) and set_status(Connected) as try_connect calls them:
\* calls.connecting and calls.connected count the calls
set_status_counted(k, s) ==
    IF s = "Connecting" THEN [k EXCEPT !.connecting = @ + 1]
    ELSE [k EXCEPT !.connected = @ + 1]

\* try_connect up to the transport connect: stats.new_attempt, status Connecting
TryConnectBegin(who) ==
    /\ At(who, "try")
    /\ attempts < MaxAttempts
    /\ attempts' = new_attempt(attempts)
    /\ status' = "Connecting"
    /\ calls' = set_status_counted(calls, "Connecting")
    /\ IF who = "sup"
       THEN /\ sup' = [sup EXCEPT !["try"] = @ - 1, !["connecting"] = @ + 1]
            /\ UNCHANGED caller
       ELSE /\ caller' = "connecting"
            /\ UNCHANGED sup
    /\ UNCHANGED <<opts, reqVars, intentVars, queue, success, connVars, bookVars, wire,
                   accepted>>

\* Where try_connect returns to: the supervisor sleeps and loops; connect(true)
\* spawns the supervisor and returns.
ReturnFrom(who, pos) ==
    IF who = "sup"
    THEN /\ sup' = [sup EXCEPT ![pos] = @ - 1, !["loop"] = @ + 1]
         /\ UNCHANGED caller
    ELSE /\ caller' = "idle"
         /\ sup' = SpawnSupervisor(sup)

Return(who) == ReturnFrom(who, "connecting")

\* A counter that misses the success
success_not_counted(n) == n

\* RelayConnectionStats::new_success: success.fetch_add(1)
new_success(n) == n + 1

\* try_connect, the transport connected: status Connected, stats.new_success,
\* the writer and the reader of the new socket are spawned, and a relay that
\* may read replays the book with resubscribe_all(None).
TryConnectOk(who) ==
    /\ At(who, "connecting")
    /\ LET c == success + 1 IN
       /\ status' = "Connected"
       /\ calls' = set_status_counted(calls, "Connected")
       /\ success' = new_success(success)
       /\ sock' = [sock EXCEPT ![c] = "open"]
       /\ writer' = [writer EXCEPT ![c] = "wait"]
       /\ reader' = [reader EXCEPT ![c] = "run"]
    /\ IF opts.read
       THEN \E order \in Orders(Keys(subscriptions)) :
               LET r == resubscribe_loop(order, subscriptions, queue, accepted) IN
               /\ queue' = r.queue
               /\ accepted' = r.accepted
       ELSE UNCHANGED <<queue, accepted>>
    /\ Return(who)
    /\ UNCHANGED <<opts, reqVars, intentVars, attempts, cur, bookVars, wire>>

\* try_connect, the transport failed: status Disconnected
TryConnectErr(who) ==
    /\ At(who, "connecting")
    /\ status' = "Disconnected"
    /\ Return(who)
    /\ UNCHANGED <<opts, reqVars, intentVars, queue, statsVars, connVars, bookVars, wire,
                   accepted, calls>>

----------------------------------------------------------------------------
\* try_connect statement by statement: what another task can see between the
\* counter and the status.

\* The runner goes from one statement of try_connect to the next
Advance(who, from, to) ==
    IF who = "sup"
    THEN /\ sup' = [sup EXCEPT ![from] = @ - 1, ![to] = @ + 1]
         /\ UNCHANGED caller
    ELSE /\ caller' = to
         /\ UNCHANGED sup

\* self.stats.new_attempt()
TryConnectNewAttempt(who) ==
    /\ At(who, "try")
    /\ attempts < MaxAttempts
    /\ attempts' = new_attempt(attempts)
    /\ Advance(who, "try", "counted")
    /\ UNCHANGED <<opts, reqVars, status, intentVars, queue, success, connVars,
                   bookVars, wire, accepted, calls>>

\* self.set_status(RelayStatus::Connecting).await
TryConnectSetConnecting(who) ==
    /\ At(who, "counted")
    /\ status' = "Connecting"
    /\ calls' = set_status_counted(calls, "Connecting")
    /\ Advance(who, "counted", "connecting")
    /\ UNCHANGED <<opts, reqVars, intentVars, queue, statsVars, connVars, bookVars,
                   wire, accepted>>

\* The transport connected: self.set_status(RelayStatus::Connected).await
TryConnectSetConnected(who) ==
    /\ At(who, "connecting")
    /\ status' = "Connected"
    /\ calls' = set_status_counted(calls, "Connected")
    /\ Advance(who, "connecting", "connected")
    /\ UNCHANGED <<opts, reqVars, intentVars, queue, statsVars, connVars, bookVars,
                   wire, accepted>>

\* self.stats.new_success() and the rest of the Ok arm: the writer and the
\* reader are spawned and a relay that may read replays the book
TryConnectNewSuccess(who) ==
    /\ At(who, "connected")
    /\ LET c == success + 1 IN
       /\ success' = new_success(success)
       /\ sock' = [sock EXCEPT ![c] = "open"]
       /\ writer' = [writer EXCEPT ![c] = "wait"]
       /\ reader' = [reader EXCEPT ![c] = "run"]
    /\ IF opts.read
       THEN \E order \in Orders(Keys(subscriptions)) :
               LET r == resubscribe_loop(order, subscriptions, queue, accepted) IN
               /\ queue' = r.queue
               /\ accepted' = r.accepted
       ELSE UNCHANGED <<queue, accepted>>
    /\ ReturnFrom(who, "connected")
    /\ UNCHANGED <<opts, reqVars, status, intentVars, attempts, cur, bookVars, wire,
                   calls>>

----------------------------------------------------------------------------
\* stop and terminate.

\* Relay::stop: set the stop intent, then queue a Stop unless the status is
\* Disconnected, Stopped or Terminated (a full queue gives MessageNotSent, with
\* the intent already set).
Stop ==
    /\ calls.stop < MaxStopCalls
    /\ scheduled_for_stop' = TRUE
    /\ queue' = IF IsDown(status) THEN queue ELSE send_relay_event(queue, StopCmd)
    /\ calls' = [calls EXCEPT !.stop = @ + 1, !.stopAt = status,
                               !.attemptsAtStop = attempts]
    /\ UNCHANGED <<opts, reqVars, status, scheduled_for_termination, statsVars, taskVars,
                   connVars, bookVars, wire, accepted>>

\* Relay::terminate: the same with the terminate intent and a Terminate command
Terminate ==
    /\ calls.terminate < MaxTerminateCalls
    /\ scheduled_for_termination' = TRUE
    /\ queue' = IF IsDown(status) THEN queue
                ELSE send_relay_event(queue, TerminateCmd)
    /\ calls' = [calls EXCEPT !.terminate = @ + 1]
    /\ UNCHANGED <<opts, reqVars, status, scheduled_for_stop, statsVars, taskVars,
                   connVars, bookVars, wire, accepted>>

----------------------------------------------------------------------------
\* send_msg and batch_msg without an acknowledgement (wait = None).

\* The messages and batches callers send in the model
ApiMsgs == {EventMsg(1), ReqMsg(0, <<1>>)}
ApiBatches == {<<EventMsg(1), ReqMsg(0, <<1>>)>>}

\* A gate that checks the write policy only
send_msg_gate_write_only(o, m) ==
    IF ~o.write /\ m.kind = "EVENT" THEN "WriteDisabled" ELSE "Ok"

\* The policy gate of send_msg
send_msg_gate(o, m) ==
    IF ~o.write /\ m.kind = "EVENT" THEN "WriteDisabled"
    ELSE IF ~o.read /\ m.kind \in {"REQ", "CLOSE"} THEN "ReadDisabled"
    ELSE "Ok"

\* The policy gate of batch_msg: any element of the batch
batch_msg_gate(o, ms) ==
    IF ~o.write /\ \E j \in 1..Len(ms) : ms[j].kind = "EVENT" THEN "WriteDisabled"
    ELSE IF ~o.read /\ \E j \in 1..Len(ms) : ms[j].kind \in {"REQ", "CLOSE"}
    THEN "ReadDisabled"
    ELSE "Ok"

\* What send_msg(m, None) returns on queue q
send_msg_result(o, q, m) ==
    IF send_msg_gate(o, m) # "Ok" THEN send_msg_gate(o, m)
    ELSE IF HasRoom(q) THEN "Ok" ELSE "MessageNotSent"

\* What batch_msg(ms, None) returns on queue q
batch_msg_result(o, q, ms) ==
    IF batch_msg_gate(o, ms) # "Ok" THEN batch_msg_gate(o, ms)
    ELSE IF HasRoom(q) THEN "Ok" ELSE "MessageNotSent"

\* Relay::send_msg(m, None): the queue takes a SendMsg when the gate passes and
\* there is room; otherwise the call returns its error and changes nothing.
\* calls.err keeps the error of the latest call that returned one.
SendMsg(m) ==
    /\ IF send_msg_result(opts, queue, m) = "Ok"
       THEN /\ accepted < MaxCmds
            /\ queue' = Append(queue, SendMsgCmd(accepted + 1, m))
            /\ accepted' = accepted + 1
            /\ UNCHANGED calls
       ELSE /\ calls' = [calls EXCEPT !.err = send_msg_result(opts, queue, m)]
            /\ UNCHANGED <<queue, accepted>>
    /\ UNCHANGED <<opts, reqVars, status, intentVars, statsVars, taskVars, connVars,
                   bookVars, wire>>

\* Relay::batch_msg(ms, None)
BatchMsg(ms) ==
    /\ IF batch_msg_result(opts, queue, ms) = "Ok"
       THEN /\ accepted < MaxCmds
            /\ queue' = Append(queue, BatchCmd(accepted + 1, ms))
            /\ accepted' = accepted + 1
            /\ UNCHANGED calls
       ELSE /\ calls' = [calls EXCEPT !.err = batch_msg_result(opts, queue, ms)]
            /\ UNCHANGED <<queue, accepted>>
    /\ UNCHANGED <<opts, reqVars, status, intentVars, statsVars, taskVars, connVars,
                   bookVars, wire>>

\* A caller that takes every answer of the oneshot for a success
ack_always_ok(val) == "Ok"

\* What send_msg(m, Some(t)) returns for the value received on its oneshot
ack_result(val) == IF val = "true" THEN "Ok" ELSE "MessageNotSent"

\* Relay::send_msg(m, Some(t)) up to the wait: the gate, then try_send of the
\* SendMsg with a oneshot; a refusal is returned at once
SendMsgWait(m) ==
    /\ calls.ack.pc = "idle"
    /\ LET r == send_msg_result(opts, queue, m) IN
       IF r = "Ok"
       THEN /\ queue' = Append(queue, SendMsgCmd(accepted + 1, m))
            /\ accepted' = accepted + 1
            /\ calls' = [calls EXCEPT !.ack = [NoAck EXCEPT !.pc = "wait",
                                                            !.n = accepted + 1]]
       ELSE /\ calls' = [calls EXCEPT !.ack = [NoAck EXCEPT !.pc = "done", !.result = r]]
            /\ UNCHANGED <<queue, accepted>>
    /\ UNCHANGED <<opts, reqVars, status, intentVars, statsVars, taskVars, connVars,
                   bookVars, wire>>

\* The oneshot has been answered: Ok for true, MessageNotSent for false
SendMsgAck ==
    /\ calls.ack.pc = "wait"
    /\ calls.ack.val # "none"
    /\ calls' = [calls EXCEPT !.ack.pc = "done", !.ack.result = ack_result(calls.ack.val)]
    /\ UNCHANGED <<opts, reqVars, status, intentVars, queue, statsVars, taskVars,
                   connVars, bookVars, wire, accepted>>

\* time::timeout(Some(t), rx): t passes with the oneshot unanswered
SendMsgRecvTimeout ==
    /\ calls.ack.pc = "wait"
    /\ calls.ack.val = "none"
    /\ calls' = [calls EXCEPT !.ack.pc = "done", !.ack.result = "RecvTimeout"]
    /\ UNCHANGED <<opts, reqVars, status, intentVars, queue, statsVars, taskVars,
                   connVars, bookVars, wire, accepted>>

----------------------------------------------------------------------------
\* The writer task of connection c.

\* Whether the transport still takes frames on a socket in state s
CanWrite(s) == s \in {"open", "eof"}

\* A receiver shared without the mutex: any task may take the next command
NoLock(w) == TRUE

\* relay.relay_receiver.lock().await: one task holds the receiver at a time
LockFree(w) == \A d \in Conns : w[d] # "run"

WriterLock(c) ==
    /\ writer[c] = "wait"
    /\ LockFree(writer)
    /\ writer' = [writer EXCEPT ![c] = "run"]
    /\ UNCHANGED <<opts, reqVars, status, intentVars, queue, statsVars, taskVars, sock, cur,
                   reader, bookVars, wire, accepted, calls>>

\* The task ends (break): the receiver lock and the socket's write half are
\* dropped.  `how` tells a task that ended on a command ("done") from one that
\* ended on a write error ("failed").
WriterExit(c, how) ==
    /\ writer' = [writer EXCEPT ![c] = how]
    /\ cur' = [cur EXCEPT ![c] = NoCmd]

\* rx.recv().await gives the oldest command of the queue to the task that holds
\* the receiver and is not in the middle of a Batch
Receives(c, type) ==
    /\ writer[c] = "run"
    /\ cur[c] = NoCmd
    /\ queue # <<>>
    /\ Head(queue).type = type

\* oneshot_sender.send(ok) of the command numbered n: the call that waits for
\* this command gets the value; a command sent without a oneshot has none
oneshot_send(k, n, ok) ==
    IF k.ack.n = n /\ k.ack.pc # "idle" THEN [k EXCEPT !.ack.val = IF ok THEN "true" ELSE "false"]
    ELSE k

\* SendMsg: the frame is written; a write error ends the task without touching
\* the status.  Either way the oneshot of the command is answered.
WriterSendMsg(c) ==
    /\ Receives(c, "SendMsg")
    /\ queue' = Tail(queue)
    /\ calls' = oneshot_send(calls, Head(queue).n, CanWrite(sock[c]))
    /\ IF CanWrite(sock[c])
       THEN /\ wire' = Append(wire, <<c, Head(queue).n, 1, Head(queue).msgs[1]>>)
            /\ UNCHANGED <<writer, cur>>
       ELSE /\ WriterExit(c, "failed")
            /\ UNCHANGED wire
    /\ UNCHANGED <<opts, reqVars, status, intentVars, statsVars, taskVars, sock, reader,
                   bookVars, accepted>>

\* Batch: send_all streams the frames one after the other; the first one
WriterBatch(c) ==
    /\ Receives(c, "Batch")
    /\ queue' = Tail(queue)
    /\ IF CanWrite(sock[c])
       THEN /\ wire' = Append(wire, <<c, Head(queue).n, 1, Head(queue).msgs[1]>>)
            /\ cur' = [cur EXCEPT ![c] = IF Len(Head(queue).msgs) = 1 THEN NoCmd
                                          ELSE [Head(queue) EXCEPT !.i = 1]]
            /\ UNCHANGED writer
       ELSE /\ WriterExit(c, "failed")
            /\ UNCHANGED wire
    /\ UNCHANGED <<opts, reqVars, status, intentVars, statsVars, taskVars, sock, reader,
                   bookVars, accepted, calls>>

\* Batch: the next frame of the batch being streamed; a write error ends the
\* task with the rest of the batch unwritten.
WriterBatchNext(c) ==
    /\ writer[c] = "run"
    /\ cur[c].type = "Batch"
    /\ IF CanWrite(sock[c])
       THEN /\ wire' = Append(wire, <<c, cur[c].n, cur[c].i + 1, cur[c].msgs[cur[c].i + 1]>>)
            /\ cur' = [cur EXCEPT ![c] = IF cur[c].i + 1 = Len(cur[c].msgs)
                                          THEN NoCmd
                                          ELSE [cur[c] EXCEPT !.i = @ + 1]]
            /\ UNCHANGED writer
       ELSE /\ WriterExit(c, "failed")
            /\ UNCHANGED wire
    /\ UNCHANGED <<opts, reqVars, status, intentVars, queue, statsVars, taskVars, sock,
                   reader, bookVars, accepted, calls>>

\* Close: close the socket, status Disconnected, end the task
WriterClose(c) ==
    /\ Receives(c, "Close")
    /\ queue' = Tail(queue)
    /\ sock' = [sock EXCEPT ![c] = "closed"]
    /\ status' = "Disconnected"
    /\ WriterExit(c, "done")
    /\ UNCHANGED <<opts, reqVars, intentVars, statsVars, taskVars, reader, bookVars, wire,
                   accepted, calls>>

\* A writer that stops at every Stop it receives
WriterStopUnconditional(c) ==
    /\ Receives(c, "Stop")
    /\ queue' = Tail(queue)
    /\ sock' = [sock EXCEPT ![c] = "closed"]
    /\ status' = "Stopped"
    /\ scheduled_for_stop' = FALSE
    /\ WriterExit(c, "done")
    /\ UNCHANGED <<opts, reqVars, scheduled_for_termination, statsVars, taskVars, reader,
                   bookVars, wire, accepted, calls>>

\* Stop: acts only while the stop intent is set
WriterStop(c) ==
    /\ Receives(c, "Stop")
    /\ queue' = Tail(queue)
    /\ IF scheduled_for_stop
       THEN /\ sock' = [sock EXCEPT ![c] = "closed"]
            /\ status' = "Stopped"
            /\ scheduled_for_stop' = FALSE
            /\ WriterExit(c, "done")
       ELSE UNCHANGED <<sock, status, scheduled_for_stop, writer, cur>>
    /\ UNCHANGED <<opts, reqVars, scheduled_for_termination, statsVars, taskVars, reader,
                   bookVars, wire, accepted, calls>>

\* Terminate: acts only while the terminate intent is set
WriterTerminate(c) ==
    /\ Receives(c, "Terminate")
    /\ queue' = Tail(queue)
    /\ IF scheduled_for_termination
       THEN /\ sock' = [sock EXCEPT ![c] = "closed"]
            /\ status' = "Terminated"
            /\ scheduled_for_termination' = FALSE
            /\ WriterExit(c, "done")
       ELSE UNCHANGED <<sock, status, scheduled_for_termination, writer, cur>>
    /\ UNCHANGED <<opts, reqVars, scheduled_for_stop, statsVars, taskVars, reader, bookVars,
                   wire, accepted, calls>>

----------------------------------------------------------------------------
\* The reader task of connection c and the transport.

\* Relay::disconnect: queue a Close unless the status is Disconnected, Stopped
\* or Terminated; a full queue refuses it
disconnect(st, q) == IF IsDown(st) THEN q ELSE send_relay_event(q, CloseCmd)

\* ws_rx.next() gives None: the reader leaves its loop and calls disconnect
ReaderEnd(c) ==
    /\ reader[c] = "run"
    /\ sock[c] # "open"
    /\ reader' = [reader EXCEPT ![c] = "done"]
    /\ queue' = disconnect(status, queue)
    /\ UNCHANGED <<opts, reqVars, status, intentVars, statsVars, taskVars, sock, writer, cur,
                   bookVars, wire, accepted, calls>>

\* The peer ends the inbound stream; frames can still be handed to the transport
PeerEof(c) ==
    /\ sock[c] = "open"
    /\ sock' = [sock EXCEPT ![c] = "eof"]
    /\ UNCHANGED <<opts, reqVars, status, intentVars, queue, statsVars, taskVars, writer,
                   cur, reader, bookVars, wire, accepted, calls>>

\* The connection is lost: the inbound stream ends and writes fail, as on a
\* socket that was closed
TransportDrop(c) ==
    /\ sock[c] \in {"open", "eof"}
    /\ sock' = [sock EXCEPT ![c] = "closed"]
    /\ UNCHANGED <<opts, reqVars, status, intentVars, queue, statsVars, taskVars, writer,
                   cur, reader, bookVars, wire, accepted, calls>>

----------------------------------------------------------------------------
\* The subscription API (wait = None).

\* An update that keeps the filters of an entry that exists
update_keeps_filters(book, fresh, k, f) ==
    [book EXCEPT ![k] = IF Has(book, k) THEN @ ELSE [id |-> fresh, filters |-> f]]

\* An update that gives the entry a fresh wire id every time
update_with_fresh_id(book, fresh, k, f) ==
    [book EXCEPT ![k] = [id |-> fresh, filters |-> f]]

\* Relay::update_subscription_filters on the book: an entry that exists gets
\* the filters and keeps its wire id; a new entry gets the fresh wire id `fresh`
update_subscription_filters(book, fresh, k, f) ==
    [book EXCEPT ![k] = IF Has(book, k) THEN [@ EXCEPT !.filters = f]
                        ELSE [id |-> fresh, filters |-> f]]

\* Relay::update_subscription_filters, called by the application
UpdateSubscriptionFilters(k, f) ==
    /\ subscriptions' = update_subscription_filters(subscriptions, nextSubId + 1, k, f)
    /\ nextSubId' = IF Has(subscriptions, k) THEN nextSubId ELSE nextSubId + 1
    /\ UNCHANGED <<opts, reqVars, status, intentVars, queue, statsVars, taskVars, connVars,
                   subscriber, wire, accepted, calls>>

\* A subscribe that takes any filter list of a readable relay
subscribe_gate_any_filters(o, f) ==
    IF ~o.read THEN "ReadDisabled" ELSE "Ok"

\* What subscribe_with_internal_id answers before it touches the book
subscribe_gate(o, f) ==
    IF ~o.read THEN "ReadDisabled"
    ELSE IF f = <<>> THEN "FiltersEmpty"
    ELSE "Ok"

\* Relay::subscribe_with_internal_id (subscribe is the call with k = "default"),
\* up to update_subscription_filters: a refused call changes nothing and leaves
\* its error in calls.err.
SubscribeUpdate(k, f) ==
    /\ subscriber = "none"
    /\ accepted < MaxCmds
    /\ IF subscribe_gate(opts, f) = "Ok"
       THEN /\ subscriptions' =
                   update_subscription_filters(subscriptions, nextSubId + 1, k, f)
            /\ nextSubId' = IF Has(subscriptions, k) THEN nextSubId ELSE nextSubId + 1
            /\ subscriber' = k
            /\ UNCHANGED calls
       ELSE /\ calls' = [calls EXCEPT !.err = subscribe_gate(opts, f)]
            /\ UNCHANGED bookVars
    /\ UNCHANGED <<opts, reqVars, status, intentVars, queue, statsVars, taskVars, connVars,
                   wire, accepted>>

\* Relay::resubscribe, called by subscribe_with_internal_id: a snapshot of the
\* book, then send_msg(REQ(id, filters), None) for the entry as it is now
SubscribeResubscribe ==
    /\ subscriber # "none"
    /\ subscriber' = "none"
    /\ LET sub == subscriptions[subscriber]
           req == ReqMsg(sub.id, sub.filters) IN
       IF Has(subscriptions, subscriber) /\ send_msg_result(opts, queue, req) = "Ok"
       THEN /\ queue' = Append(queue, SendMsgCmd(accepted + 1, req))
            /\ accepted' = accepted + 1
       ELSE UNCHANGED <<queue, accepted>>
    /\ UNCHANGED <<opts, reqVars, status, intentVars, statsVars, taskVars, connVars,
                   subscriptions, nextSubId, wire, calls>>

\* HashMap::remove on the copy of the book that Relay::subscriptions returns:
\* the book itself is the first component, the copy the second
remove_from_snapshot(book, k) == <<book, [book EXCEPT ![k] = NoSub]>>

\* What unsubscribe_with_internal_id(k, None) returns
unsubscribe_result(o, book, q, k) ==
    IF ~o.read THEN "ReadDisabled"
    ELSE IF ~Has(book, k) THEN "InternalIdNotFound"
    ELSE send_msg_result(o, q, CloseMsg(book[k].id))

\* Relay::unsubscribe_with_internal_id (unsubscribe is the call with
\* k = "default"): the entry is taken out of a snapshot of the book and a CLOSE
\* with its wire id is sent.
UnsubscribeWithInternalId(k) ==
    /\ accepted < MaxCmds
    /\ subscriptions' = remove_from_snapshot(subscriptions, k)[1]
    /\ IF unsubscribe_result(opts, subscriptions, queue, k) = "Ok"
       THEN /\ queue' = Append(queue, SendMsgCmd(accepted + 1,
                                                 CloseMsg(subscriptions[k].id)))
            /\ accepted' = accepted + 1
       ELSE UNCHANGED <<queue, accepted>>
    /\ UNCHANGED <<opts, reqVars, status, intentVars, statsVars, taskVars, connVars,
                   nextSubId, subscriber, wire, calls>>

\* Relay::unsubscribe_all, after its read check: iterate the snapshot `book` in
\* the order `order`; send_msg(CLOSE, None) for every entry, and return at the
\* first one that is refused.  Gives the queue and the count of accepted
\* commands.
RECURSIVE unsubscribe_all_loop(_, _, _, _, _)
unsubscribe_all_loop(o, order, book, q, n) ==
    IF order = <<>> THEN [queue |-> q, accepted |-> n]
    ELSE LET close == CloseMsg(book[Head(order)].id) IN
         IF send_msg_result(o, q, close) = "Ok"
         THEN unsubscribe_all_loop(o, Tail(order), book,
                  Append(q, SendMsgCmd(n + 1, close)), n + 1)
         ELSE [queue |-> q, accepted |-> n]

\* Relay::unsubscribe_all(None): a relay that may not read refuses; the book
\* itself is not touched
UnsubscribeAll ==
    /\ accepted < MaxCmds
    /\ IF ~opts.read THEN UNCHANGED <<queue, accepted>>
       ELSE \E order \in Orders(Keys(subscriptions)) :
               LET r == unsubscribe_all_loop(opts, order, subscriptions, queue, accepted) IN
               /\ queue' = r.queue
               /\ accepted' = r.accepted
    /\ UNCHANGED <<opts, reqVars, status, intentVars, statsVars, taskVars, connVars,
                   bookVars, wire, calls>>

----------------------------------------------------------------------------
\* The inbound path: the peer, the reader task, the pool and the bus.

\* The relay at the other end handles the next frame of the wire.  On an open
\* connection an EVENT is answered with an Ok of either status, a REQ opens the
\* subscription it serves from now on, and the CLOSE of that subscription ends
\* it; a frame written to a connection that is no longer open is lost.
PeerServe ==
    /\ served < Len(wire)
    /\ served' = served + 1
    /\ LET f == wire[served + 1] IN
       IF sock[f[1]] # "open" THEN UNCHANGED <<inbox, peer>>
       ELSE CASE f[4].kind = "EVENT" ->
                   /\ \E st \in BOOLEAN :
                         inbox' = [inbox EXCEPT ![f[1]] = Append(@, OkMsg(f[4].id, st))]
                   /\ UNCHANGED peer
              [] f[4].kind = "REQ" ->
                   /\ peer' = [NoPeerSub EXCEPT !.id = f[4].id, !.conn = f[1]]
                   /\ UNCHANGED inbox
              [] OTHER ->
                   /\ peer' = IF f[4].id = peer.id THEN [peer EXCEPT !.closed = TRUE]
                              ELSE peer
                   /\ UNCHANGED inbox
    /\ UNCHANGED <<opts, status, intentVars, queue, statsVars, taskVars, connVars,
                   bookVars, poolq, bus, busReplies, others, se, be, ge, wire,
                   accepted, calls>>

\* Whether the relay at the other end can send for its subscription
PeerServes == peer.id # 0 /\ ~peer.closed /\ sock[peer.conn] = "open"

\* The relay at the other end sends the next event of the subscription
PeerEvent ==
    /\ PeerServes
    /\ peer.sent < MaxEvents
    /\ inbox' = [inbox EXCEPT ![peer.conn] = Append(@, SubEventMsg(peer.id, peer.sent + 1))]
    /\ peer' = [peer EXCEPT !.sent = @ + 1,
                             !.pre = IF peer.eose THEN @ ELSE @ + 1]
    /\ UNCHANGED <<opts, status, intentVars, queue, statsVars, taskVars, connVars,
                   bookVars, poolq, bus, busReplies, served, others, se, be, ge, wire,
                   accepted, calls>>

\* The relay at the other end has sent its stored events: EOSE, once
PeerEose ==
    /\ PeerServes
    /\ ~peer.eose
    /\ inbox' = [inbox EXCEPT ![peer.conn] = Append(@, EoseMsg(peer.id))]
    /\ peer' = [peer EXCEPT !.eose = TRUE]
    /\ UNCHANGED <<opts, status, intentVars, queue, statsVars, taskVars, connVars,
                   bookVars, poolq, bus, busReplies, served, others, se, be, ge, wire,
                   accepted, calls>>

\* The reader task: one inbound frame is decoded and sent to the pool as
\* ReceivedMsg {relay_url, msg}; pool_sender.send waits while the channel is full
ReaderRecv(c) ==
    /\ reader[c] = "run"
    /\ inbox[c] # <<>>
    /\ Len(poolq) < PoolCap
    /\ poolq' = Append(poolq, Notification(TRUE, Head(inbox[c])))
    /\ inbox' = [inbox EXCEPT ![c] = Tail(@)]
    /\ UNCHANGED <<opts, status, intentVars, queue, statsVars, taskVars, connVars,
                   bookVars, bus, busReplies, served, others, se, be, ge, peer, wire,
                   accepted, calls>>

\* broadcast::Sender::send on the retained notifications: the bus keeps the
\* newest BusCap of them
bus_send(b, note) ==
    IF Len(b) < BusCap THEN Append(b, note) ELSE Append(Tail(b), note)

\* broadcast::Sender::send seen from a receiver: one more notification waits
\* for it; if BusCap already wait, the oldest is dropped and the receiver lags
deliver(r) ==
    IF r.behind = BusCap THEN [r EXCEPT !.lagged = TRUE]
    ELSE [r EXCEPT !.behind = @ + 1]

\* The notification a receiver gets next
next_notification(b, r) == b[Len(b) - r.behind + 1]

\* A notification is published on the bus: every subscribed receiver gets it
Publish(note) ==
    /\ bus' = bus_send(bus, note)
    /\ se' = IF se.pc = "recv" THEN [se EXCEPT !.rx = deliver(@)] ELSE se
    /\ be' = IF be.pc = "recv" THEN [be EXCEPT !.rx = deliver(@)] ELSE be
    /\ ge' = IF ge.pc \in {"recv", "drain"} THEN [ge EXCEPT !.rx = deliver(@)] ELSE ge
    /\ busReplies' = IF note.own /\ note.msg.kind = "OK"
                     THEN busReplies \cup {<<note.msg.id, note.msg.status>>}
                     ELSE busReplies

\* The pool forwards a message received from this relay to the notification bus
PoolForward ==
    /\ poolq # <<>>
    /\ Publish(Head(poolq))
    /\ poolq' = Tail(poolq)
    /\ UNCHANGED <<opts, status, intentVars, queue, statsVars, taskVars, connVars,
                   bookVars, inbox, served, others, peer, wire, accepted, calls>>

\* The pool publishes the Ok reply that another of its relays received
OtherRelayNotification(e) ==
    /\ others < MaxOthers
    /\ others' = others + 1
    /\ Publish(Notification(FALSE, OkMsg(e, TRUE)))
    /\ UNCHANGED <<opts, status, intentVars, queue, statsVars, taskVars, connVars,
                   bookVars, inbox, poolq, served, peer, wire, accepted, calls>>

----------------------------------------------------------------------------
\* send_event, with a timeout.

\* Whether a notification is the Ok reply send_event / batch_event look for:
\* Message(url, Ok {event_id, ..}) with this relay's url
IsOwnOk(note) == note.own /\ note.msg.kind = "OK"

\* Relay::send_event up to the subscription: send_msg(Event, None)?
SendEventCall(e) ==
    /\ se.pc = "idle"
    /\ LET r == send_msg_result(opts, queue, EventMsg(e)) IN
       IF r = "Ok"
       THEN /\ queue' = Append(queue, SendMsgCmd(accepted + 1, EventMsg(e)))
            /\ accepted' = accepted + 1
            /\ se' = [se EXCEPT !.pc = "sent", !.id = e]
       ELSE /\ se' = [se EXCEPT !.pc = "done", !.id = e, !.result = r]
            /\ UNCHANGED <<queue, accepted>>
    /\ UNCHANGED <<opts, status, intentVars, statsVars, taskVars, connVars, bookVars,
                   inbox, poolq, bus, busReplies, served, others, be, ge, peer, wire,
                   calls>>

\* notification_sender.subscribe(): the receiver starts behind nothing
SendEventSubscribe ==
    /\ se.pc = "sent"
    /\ se' = [se EXCEPT !.pc = "recv", !.rx = NoReceiver]
    /\ UNCHANGED <<opts, status, intentVars, queue, statsVars, taskVars, connVars,
                   bookVars, inbox, poolq, bus, busReplies, served, others, be, ge,
                   peer, wire, accepted, calls>>

\* What send_event does with the outcome of one notifications.recv(): a lagged
\* receiver gets an error, which ends the loop with LoopTerminated; the Ok of
\* this relay for the event ends the call; anything else is skipped.
send_event_recv(call, b) ==
    IF call.rx.lagged
    THEN [call EXCEPT !.pc = "done", !.result = "LoopTerminated"]
    ELSE LET note == next_notification(b, call.rx) IN
         IF IsOwnOk(note) /\ note.msg.id = call.id
         THEN [call EXCEPT !.pc = "done",
                           !.result = IF note.msg.status THEN "Ok"
                                      ELSE "EventNotPublished"]
         ELSE [call EXCEPT !.rx.behind = @ - 1]

SendEventRecv ==
    /\ se.pc = "recv"
    /\ se.rx.behind > 0 \/ se.rx.lagged
    /\ se' = send_event_recv(se, bus)
    /\ UNCHANGED <<opts, status, intentVars, queue, statsVars, taskVars, connVars,
                   bookVars, inbox, poolq, bus, busReplies, served, others, be, ge,
                   peer, wire, accepted, calls>>

\* time::timeout(opts.timeout, ..): the deadline passes while the call waits
\* for a notification
SendEventTimeout ==
    /\ se.pc = "recv"
    /\ se.rx = NoReceiver
    /\ se' = [se EXCEPT !.pc = "done", !.result = "Timeout"]
    /\ UNCHANGED <<opts, status, intentVars, queue, statsVars, taskVars, connVars,
                   bookVars, inbox, poolq, bus, busReplies, served, others, be, ge,
                   peer, wire, accepted, calls>>

----------------------------------------------------------------------------
\* batch_event, with a timeout.

\* The set of the elements of a sequence
Range(q) == {q[j] : j \in 1..Len(q)}

\* The event ids of a batch as EVENT messages
EventMsgs(es) == [j \in 1..Len(es) |-> EventMsg(es[j])]

\* Relay::batch_event up to the subscription: the empty batch is refused, then
\* batch_msg(msgs, None)?
BatchEventCall(es) ==
    /\ be.pc = "idle"
    /\ LET r == IF es = <<>> THEN "BatchEventEmpty"
                ELSE batch_msg_result(opts, queue, EventMsgs(es)) IN
       IF r = "Ok"
       THEN /\ queue' = Append(queue, BatchCmd(accepted + 1, EventMsgs(es)))
            /\ accepted' = accepted + 1
            /\ be' = [be EXCEPT !.pc = "sent", !.ids = Range(es)]
       ELSE /\ be' = [be EXCEPT !.pc = "done", !.ids = Range(es), !.result = r]
            /\ UNCHANGED <<queue, accepted>>
    /\ UNCHANGED <<opts, status, intentVars, statsVars, taskVars, connVars, bookVars,
                   inbox, poolq, bus, busReplies, served, others, se, ge, peer, wire,
                   calls>>

\* The three sets are set up and the bus is subscribed
BatchEventSubscribe ==
    /\ be.pc = "sent"
    /\ be' = [be EXCEPT !.pc = "recv", !.missing = be.ids, !.published = {},
                         !.not_published = {}, !.rx = NoReceiver]
    /\ UNCHANGED <<opts, status, intentVars, queue, statsVars, taskVars, connVars,
                   bookVars, inbox, poolq, bus, busReplies, served, others, se, ge,
                   peer, wire, accepted, calls>>

\* The result rules of batch_event, applied when the loop is left
batch_event_result(call) ==
    IF call.published # {} /\ call.not_published = {} THEN "Ok"
    ELSE IF call.published # {} /\ call.not_published # {} THEN "PartialPublish"
    ELSE "EventsNotPublished"

\* The call returns with the sets as they are
batch_event_return(call) ==
    [call EXCEPT !.pc = "done", !.result = batch_event_result(call)]

\* A loop that takes the Ok of this relay for any id
batch_event_recv_any_id(call, b) ==
    IF call.rx.lagged THEN batch_event_return(call)
    ELSE LET note == next_notification(b, call.rx)
             got == [call EXCEPT !.rx.behind = @ - 1]
             moved == IF IsOwnOk(note)
                      THEN [got EXCEPT
                              !.missing = @ \ {note.msg.id},
                              !.published = IF note.msg.status
                                            THEN @ \cup {note.msg.id} ELSE @,
                              !.not_published = IF note.msg.status THEN @
                                                ELSE @ \cup {note.msg.id}]
                      ELSE got IN
         IF moved.missing = {} THEN batch_event_return(moved) ELSE moved

\* What batch_event does with the outcome of one notifications.recv(): an
\* error (a lagged receiver) ends the loop; the Ok of this relay for an id
\* still missing moves the id; the loop ends when nothing is missing.
batch_event_recv(call, b) ==
    IF call.rx.lagged THEN batch_event_return(call)
    ELSE LET note == next_notification(b, call.rx)
             got == [call EXCEPT !.rx.behind = @ - 1]
             moved == IF IsOwnOk(note) /\ note.msg.id \in call.missing
                      THEN [got EXCEPT
                              !.missing = @ \ {note.msg.id},
                              !.published = IF note.msg.status
                                            THEN @ \cup {note.msg.id} ELSE @,
                              !.not_published = IF note.msg.status THEN @
                                                ELSE @ \cup {note.msg.id}]
                      ELSE got IN
         IF moved.missing = {} THEN batch_event_return(moved) ELSE moved

BatchEventRecv ==
    /\ be.pc = "recv"
    /\ be.rx.behind > 0 \/ be.rx.lagged
    /\ be' = batch_event_recv(be, bus)
    /\ UNCHANGED <<opts, status, intentVars, queue, statsVars, taskVars, connVars,
                   bookVars, inbox, poolq, bus, busReplies, served, others, se, ge,
                   peer, wire, accepted, calls>>

\* The deadline passes while the call waits for a notification
BatchEventTimeout ==
    /\ be.pc = "recv"
    /\ be.rx = NoReceiver
    /\ be' = [be EXCEPT !.pc = "done", !.result = "Timeout"]
    /\ UNCHANGED <<opts, status, intentVars, queue, statsVars, taskVars, connVars,
                   bookVars, inbox, poolq, bus, busReplies, served, others, se, ge,
                   peer, wire, accepted, calls>>

----------------------------------------------------------------------------
\* get_events_of_with_callback and req_events_of, with a timeout.

\* The filters of the query
QueryFilters == <<1>>

\* A generator that gives the id generated last again
query_id_reused(n) == n

\* SubscriptionId::generate() of a query: an id no subscription has had
query_id(n) == n + 1

\* What get_events_of_with_callback answers before it generates the id; the
\* same check of req_events_of only logs
get_events_gate(kind, o) ==
    IF kind = "get" /\ ~o.read THEN "ReadDisabled" ELSE "Ok"

\* Relay::get_events_of_with_callback (kind "get", what get_events_of calls) and
\* the task of Relay::req_events_of (kind "req") up to handle_events_of: the
\* id, then send_msg(REQ, None); get returns the error, req logs it and goes on
GetEventsCall(kind, opt) ==
    /\ ge.pc = "idle"
    /\ IF get_events_gate(kind, opts) # "Ok"
       THEN /\ ge' = [ge EXCEPT !.pc = "done", !.kind = kind, !.opt = opt,
                                !.result = get_events_gate(kind, opts)]
            /\ UNCHANGED <<queue, accepted, nextSubId>>
       ELSE LET id == query_id(nextSubId)
                r == send_msg_result(opts, queue, ReqMsg(id, QueryFilters))
                call == [ge EXCEPT !.kind = kind, !.opt = opt, !.id = id]
            IN /\ nextSubId' = nextSubId + 1
               /\ IF r = "Ok"
                  THEN /\ queue' = Append(queue, SendMsgCmd(accepted + 1,
                                                            ReqMsg(id, QueryFilters)))
                       /\ accepted' = accepted + 1
                       /\ ge' = [call EXCEPT !.pc = "sent"]
                  ELSE /\ ge' = IF kind = "get"
                                THEN [call EXCEPT !.pc = "done", !.result = r]
                                ELSE [call EXCEPT !.pc = "sent"]
                       /\ UNCHANGED <<queue, accepted>>
    /\ UNCHANGED <<opts, status, intentVars, statsVars, taskVars, connVars,
                   subscriptions, subscriber, inbox, poolq, bus, busReplies, served,
                   others, se, be, peer, wire, calls>>

\* handle_events_of: notification_sender.subscribe(), counter = 0 and
\* received_eose = false
GetEventsSubscribe ==
    /\ ge.pc = "sent"
    /\ ge' = [ge EXCEPT !.pc = "recv", !.rx = NoReceiver, !.counter = 0,
                        !.received_eose = FALSE]
    /\ UNCHANGED <<opts, status, intentVars, queue, statsVars, taskVars, connVars,
                   bookVars, inbox, poolq, bus, busReplies, served, others, se, be,
                   peer, wire, accepted, calls>>

\* broadcast::Receiver::recv of a lagged receiver gives the error once; the
\* receiver then stands at the oldest notification the bus retains
after_lag(r) == [behind |-> BusCap, lagged |-> FALSE]

\* handle_events_of once its first loop is left without a timeout: the option
\* WaitDurationAfterEOSE goes on to the second loop, the others return Ok
after_loop(call) ==
    IF call.opt.type = "WaitDurationAfterEOSE"
    THEN [call EXCEPT !.pc = "drain"]
    ELSE [call EXCEPT !.pc = "close", !.handled = "Ok"]

\* What the first loop of handle_events_of does with the outcome of one
\* notifications.recv(): an error ends the loop; an Event of the query's id,
\* from any relay, goes to the callback and, once EOSE was seen, counts for
\* WaitForEventsAfterEOSE; the EOSE of the query's id is recorded and ends the
\* loop for ExitOnEOSE and WaitDurationAfterEOSE; anything else is skipped.
handle_events_of_recv(call, b) ==
    IF call.rx.lagged
    THEN after_loop([call EXCEPT !.rx = after_lag(@)])
    ELSE LET note == next_notification(b, call.rx)
             next == [call EXCEPT !.rx.behind = @ - 1]
         IN
         IF note.msg.kind = "SUBEVENT" /\ note.msg.sub = call.id
         THEN LET given == [next EXCEPT !.got = Append(@, note.msg.event)] IN
              IF call.opt.type = "WaitForEventsAfterEOSE" /\ call.received_eose
              THEN IF call.counter + 1 >= call.opt.n
                   THEN after_loop([given EXCEPT !.counter = @ + 1])
                   ELSE [given EXCEPT !.counter = @ + 1]
              ELSE given
         ELSE IF note.msg.kind = "EOSE" /\ note.msg.sub = call.id
         THEN LET seen == [next EXCEPT !.received_eose = TRUE,
                                       !.gotAtEose = Len(call.got)] IN
              IF call.opt.type \in {"ExitOnEOSE", "WaitDurationAfterEOSE"}
              THEN after_loop(seen)
              ELSE seen
         ELSE next

GetEventsRecv ==
    /\ ge.pc = "recv"
    /\ ge.rx.behind > 0 \/ ge.rx.lagged
    /\ ge' = handle_events_of_recv(ge, bus)
    /\ UNCHANGED <<opts, status, intentVars, queue, statsVars, taskVars, connVars,
                   bookVars, inbox, poolq, bus, busReplies, served, others, se, be,
                   peer, wire, accepted, calls>>

\* time::timeout(timeout, ..) around the first loop: the deadline passes while
\* the call waits for a notification.  get returns Timeout; req logs it and
\* goes on to the CLOSE
GetEventsTimeout ==
    /\ ge.pc = "recv"
    /\ ge.rx = NoReceiver
    /\ ge' = IF ge.kind = "get"
             THEN [ge EXCEPT !.pc = "done", !.handled = "Timeout", !.result = "Timeout"]
             ELSE [ge EXCEPT !.pc = "close", !.handled = "Timeout"]
    /\ UNCHANGED <<opts, status, intentVars, queue, statsVars, taskVars, connVars,
                   bookVars, inbox, poolq, bus, busReplies, served, others, se, be,
                   peer, wire, accepted, calls>>

\* What the second loop of handle_events_of (WaitDurationAfterEOSE) does with
\* the outcome of one notifications.recv(): an error ends the loop, an Event of
\* the query's id goes to the callback, anything else is skipped
handle_events_of_drain(call, b) ==
    IF call.rx.lagged
    THEN [call EXCEPT !.pc = "close", !.handled = "Ok", !.rx = after_lag(@)]
    ELSE LET note == next_notification(b, call.rx)
             next == [call EXCEPT !.rx.behind = @ - 1]
         IN
         IF note.msg.kind = "SUBEVENT" /\ note.msg.sub = call.id
         THEN [next EXCEPT !.got = Append(@, note.msg.event)]
         ELSE next

GetEventsDrainRecv ==
    /\ ge.pc = "drain"
    /\ ge.rx.behind > 0 \/ ge.rx.lagged
    /\ ge' = handle_events_of_drain(ge, bus)
    /\ UNCHANGED <<opts, status, intentVars, queue, statsVars, taskVars, connVars,
                   bookVars, inbox, poolq, bus, busReplies, served, others, se, be,
                   peer, wire, accepted, calls>>

\* time::timeout(duration, ..) around the second loop: the duration passes
\* while the call waits for a notification, and handle_events_of returns Ok
GetEventsDrainEnd ==
    /\ ge.pc = "drain"
    /\ ge.rx = NoReceiver
    /\ ge' = [ge EXCEPT !.pc = "close", !.handled = "Ok"]
    /\ UNCHANGED <<opts, status, intentVars, queue, statsVars, taskVars, connVars,
                   bookVars, inbox, poolq, bus, busReplies, served, others, se, be,
                   peer, wire, accepted, calls>>

\* A call that returns Ok without sending the CLOSE
GetEventsCloseSkipped ==
    /\ ge.pc = "close"
    /\ ge' = [ge EXCEPT !.pc = "done", !.result = "Ok"]
    /\ UNCHANGED <<opts, status, intentVars, queue, statsVars, taskVars, connVars,
                   bookVars, inbox, poolq, bus, busReplies, served, others, se, be,
                   peer, wire, accepted, calls>>

\* After handle_events_of: send_msg(CLOSE, None); get returns its outcome, req
\* logs an error
GetEventsClose ==
    /\ ge.pc = "close"
    /\ LET r == send_msg_result(opts, queue, CloseMsg(ge.id)) IN
       /\ IF r = "Ok"
          THEN /\ queue' = Append(queue, SendMsgCmd(accepted + 1, CloseMsg(ge.id)))
               /\ accepted' = accepted + 1
          ELSE UNCHANGED <<queue, accepted>>
       /\ ge' = [ge EXCEPT !.pc = "done", !.result = r]
    /\ UNCHANGED <<opts, status, intentVars, statsVars, taskVars, connVars, bookVars,
                   inbox, poolq, bus, busReplies, served, others, se, be, peer, wire,
                   calls>>

----------------------------------------------------------------------------
\* The relay's lifecycle and its outbound messages.  The application calls
\* connect from one thread: a call begins when none is in flight.

Next ==
    \/ \E wait \in BOOLEAN : caller = "idle" /\ Connect(wait)
    \/ SupervisorTick
    \/ \E who \in Runners : TryConnectBegin(who)
    \/ \E who \in Runners : TryConnectOk(who)
    \/ \E who \in Runners : TryConnectErr(who)
    \/ Stop
    \/ Terminate
    \/ \E m \in ApiMsgs : SendMsg(m)
    \/ \E ms \in ApiBatches : BatchMsg(ms)
    \/ \E c \in Conns : WriterLock(c)
    \/ \E c \in Conns : WriterSendMsg(c)
    \/ \E c \in Conns : WriterBatch(c)
    \/ \E c \in Conns : WriterBatchNext(c)
    \/ \E c \in Conns : WriterClose(c)
    \/ \E c \in Conns : WriterStop(c)
    \/ \E c \in Conns : WriterTerminate(c)
    \/ \E c \in Conns : ReaderEnd(c)
    \/ \E c \in Conns : PeerEof(c)
    \/ \E c \in Conns : TransportDrop(c)

Spec == Init /\ [][Next]_vars

\* The types of the state
TypeOK ==
    /\ opts \in OptionSets
    /\ status \in Statuses
    /\ scheduled_for_stop \in BOOLEAN
    /\ scheduled_for_termination \in BOOLEAN
    /\ Len(queue) <= QueueCap
    /\ attempts \in 0..MaxAttempts
    /\ success \in 0..attempts
    /\ SupCount <= MaxSupervisors
    /\ caller \in {"idle", "try", "counted", "connecting", "connected"}
    /\ \A c \in Conns :
          /\ sock[c] \in {"none", "open", "eof", "closed"}
          /\ writer[c] \in {"none", "wait", "run", "done", "failed"}
          /\ reader[c] \in {"none", "run", "done"}

----------------------------------------------------------------------------
\* The same relay with no stop and no terminate call, one connect(false), and
\* the scheduler's fairness: a task of the runtime that can run does run.

NextFair ==
    \/ Connect(FALSE)
    \/ SupervisorTick
    \/ TryConnectBegin("sup")
    \/ TryConnectOk("sup")
    \/ TryConnectErr("sup")
    \/ SendMsg(EventMsg(1))
    \/ \E c \in Conns : WriterLock(c)
    \/ \E c \in Conns : WriterSendMsg(c)
    \/ \E c \in Conns : WriterClose(c)
    \/ \E c \in Conns : ReaderEnd(c)
    \/ \E c \in Conns : PeerEof(c)
    \/ \E c \in Conns : TransportDrop(c)

Fairness ==
    /\ WF_vars(SupervisorTick)
    /\ WF_vars(TryConnectBegin("sup"))
    /\ WF_vars(TryConnectOk("sup") \/ TryConnectErr("sup"))
    /\ \A c \in Conns :
          /\ WF_vars(WriterLock(c))
          /\ WF_vars(WriterSendMsg(c))
          /\ WF_vars(WriterClose(c))
          /\ WF_vars(ReaderEnd(c))

FairSpec == Init /\ [][NextFair]_vars /\ Fairness

----------------------------------------------------------------------------
\* The subscription book over reconnections: one connect(false), the
\* supervisor, the tasks of each connection, and an application that calls
\* subscribe and unsubscribe (the Default id), update_subscription_filters for
\* a Custom id, and unsubscribe_with_internal_id for either.

NextBook ==
    \/ Connect(FALSE)
    \/ SupervisorTick
    \/ TryConnectBegin("sup")
    \/ TryConnectOk("sup")
    \/ TryConnectErr("sup")
    \/ \E f \in FilterLists : UpdateSubscriptionFilters("custom", f)
    \/ \E f \in FilterLists : SubscribeUpdate("default", f)
    \/ SubscribeResubscribe
    \/ \E k \in InternalIds : UnsubscribeWithInternalId(k)
    \/ \E c \in Conns : WriterLock(c)
    \/ \E c \in Conns : WriterSendMsg(c)
    \/ \E c \in Conns : WriterClose(c)
    \/ \E c \in Conns : ReaderEnd(c)
    \/ \E c \in Conns : PeerEof(c)

SpecBook == Init /\ [][NextBook]_vars

----------------------------------------------------------------------------
\* The request layer: one connect(false), the tasks of the connection, the peer,
\* the pool, and callers of send_event and batch_event.

NextReq ==
    \/ Connect(FALSE)
    \/ SupervisorTick
    \/ TryConnectBegin("sup")
    \/ TryConnectOk("sup")
    \/ \E c \in Conns : WriterLock(c)
    \/ \E c \in Conns : WriterSendMsg(c)
    \/ \E c \in Conns : WriterBatch(c)
    \/ \E c \in Conns : WriterBatchNext(c)
    \/ PeerServe
    \/ \E c \in Conns : ReaderRecv(c)
    \/ PoolForward
    \/ \E e \in {1, 2} : OtherRelayNotification(e)
    \/ SendEventCall(1)
    \/ SendEventSubscribe
    \/ SendEventRecv
    \/ SendEventTimeout
    \/ BatchEventCall(<<2, 3>>)
    \/ BatchEventSubscribe
    \/ BatchEventRecv
    \/ BatchEventTimeout

SpecReq == Init /\ [][NextReq]_vars

----------------------------------------------------------------------------
\* A relay that cannot be reached: no connection attempt succeeds, so no writer
\* task ever receives from the command queue, while callers connect, stop,
\* terminate and send.

NextQueue ==
    \/ \E wait \in BOOLEAN : caller = "idle" /\ Connect(wait)
    \/ SupervisorTick
    \/ \E who \in Runners : TryConnectBegin(who)
    \/ \E who \in Runners : TryConnectErr(who)
    \/ Stop
    \/ Terminate
    \/ \E m \in ApiMsgs : SendMsg(m)
    \/ \E ms \in ApiBatches : BatchMsg(ms)

SpecQueue == Init /\ [][NextQueue]_vars

----------------------------------------------------------------------------
\* A query on a relay that connects once: connect(false), the supervisor's
\* attempt, the writer and reader of the connection, the relay at the other
\* end, the pool and the query.

NextQuery ==
    \/ Connect(FALSE)
    \/ SupervisorTick
    \/ TryConnectBegin("sup")
    \/ TryConnectOk("sup")
    \/ \E c \in Conns : WriterLock(c)
    \/ \E c \in Conns : WriterSendMsg(c)
    \/ PeerServe
    \/ PeerEvent
    \/ PeerEose
    \/ \E c \in Conns : ReaderRecv(c)
    \/ PoolForward
    \/ \E kind \in {"get", "req"}, opt \in FilterOptions : GetEventsCall(kind, opt)
    \/ GetEventsSubscribe
    \/ GetEventsRecv
    \/ GetEventsTimeout
    \/ GetEventsDrainRecv
    \/ GetEventsDrainEnd
    \/ GetEventsClose

SpecQuery == Init /\ [][NextQuery]_vars

----------------------------------------------------------------------------
\* Every public operation that can queue a message, on a relay of each policy:
\* one connect(false) with its replay of the book, and the calls of the API.

NextGate ==
    \/ Connect(FALSE)
    \/ SupervisorTick
    \/ TryConnectBegin("sup")
    \/ TryConnectOk("sup")
    \/ \E m \in ApiMsgs \cup {CloseMsg(0)} : SendMsg(m)
    \/ \E ms \in ApiBatches : BatchMsg(ms)
    \/ SendEventCall(1)
    \/ BatchEventCall(<<2, 3>>)
    \/ \E f \in {<<>>, <<1>>} : SubscribeUpdate("default", f)
    \/ SubscribeResubscribe
    \/ UnsubscribeWithInternalId("default")
    \/ UnsubscribeAll
    \/ \E kind \in {"get", "req"} : GetEventsCall(kind, ExitOnEOSE)
    \/ GetEventsSubscribe
    \/ GetEventsTimeout
    \/ GetEventsClose

SpecGate == Init /\ [][NextGate]_vars

----------------------------------------------------------------------------
\* The connection statistics: the lifecycle of the relay with no messages, and
\* with connect called by any thread at any time, also while the attempt of a
\* connect(true) is in flight.

NextStats ==
    \/ \E wait \in BOOLEAN : Connect(wait)
    \/ SupervisorTick
    \/ \E who \in Runners : TryConnectBegin(who)
    \/ \E who \in Runners : TryConnectOk(who)
    \/ \E who \in Runners : TryConnectErr(who)
    \/ Stop
    \/ Terminate
    \/ \E c \in Conns : WriterLock(c)
    \/ \E c \in Conns : WriterStop(c)
    \/ \E c \in Conns : WriterTerminate(c)
    \/ \E c \in Conns : ReaderEnd(c)
    \/ \E c \in Conns : PeerEof(c)
    \/ \E c \in Conns : TransportDrop(c)

SpecStats == Init /\ [][NextStats]_vars

----------------------------------------------------------------------------
\* The conversions of InternalSubscriptionId, from a string and from an id.

\* The conversion starts from a string or from an id
InitIds ==
    /\ InitRelay
    /\ calls \in {[NoCalls EXCEPT !.conv = [NoConv EXCEPT !.start = "text", !.text0 = t,
                                                           !.text = t]] : t \in Strings}
               \cup {[NoCalls EXCEPT !.conv = [NoConv EXCEPT !.start = "id", !.id0 = i,
                                                              !.id = i]] :
                        i \in InternalSubscriptionIds}

\* InternalSubscriptionId::from(text): of the string given, or of the string
\* an id was displayed as
InternalIdFrom ==
    /\ \/ calls.conv.start = "text" /\ calls.conv.step = 0
       \/ calls.conv.start = "id" /\ calls.conv.step = 1
    /\ calls' = [calls EXCEPT !.conv.id = from_string(calls.conv.text),
                               !.conv.step = @ + 1]
    /\ UNCHANGED <<opts, status, intentVars, queue, statsVars, taskVars, connVars,
                   bookVars, reqVars, wire, accepted>>

\* id.to_string(): of the id given, or of the id a string was converted to
InternalIdDisplay ==
    /\ \/ calls.conv.start = "id" /\ calls.conv.step = 0
       \/ calls.conv.start = "text" /\ calls.conv.step = 1
    /\ calls' = [calls EXCEPT !.conv.text = display(calls.conv.id),
                               !.conv.step = @ + 1]
    /\ UNCHANGED <<opts, status, intentVars, queue, statsVars, taskVars, connVars,
                   bookVars, reqVars, wire, accepted>>

NextIds ==
    \/ InternalIdFrom
    \/ InternalIdDisplay

SpecIds == InitIds /\ [][NextIds]_vars

----------------------------------------------------------------------------
\* send_msg with an acknowledgement: one connect(false), the writer of the
\* connection, a transport that can fail, a send_msg(m, None) that can fill the
\* queue and one send_msg(m, Some(t)).

NextAck ==
    \/ Connect(FALSE)
    \/ SupervisorTick
    \/ TryConnectBegin("sup")
    \/ TryConnectOk("sup")
    \/ \E c \in Conns : WriterLock(c)
    \/ \E c \in Conns : WriterSendMsg(c)
    \/ \E c \in Conns : TransportDrop(c)
    \/ SendMsg(EventMsg(1))
    \/ \E m \in ApiMsgs : SendMsgWait(m)
    \/ SendMsgAck
    \/ SendMsgRecvTimeout

SpecAck == Init /\ [][NextAck]_vars

----------------------------------------------------------------------------
\* Claims.

\* The REQ messages among the commands of q after its first `from` ones
ReqsAfter(q, from) ==
    {q[j].msgs[1] : j \in {i \in (from + 1)..Len(q) : q[i].msgs[1].kind = "REQ"}}

\* The REQs that replay a book: one per entry with filters
ReplayOf(book) ==
    {ReqMsg(book[k].id, book[k].filters) :
        k \in {x \in Keys(book) : book[x].filters # <<>>}}

\* C1: a successful connection attempt of a relay that may read enqueues
\* exactly the REQs of the book's entries with filters, one each, whatever
\* the queue holds at that moment.
C1_ReplayEqualsBook ==
    [][(success' = success + 1 /\ opts.read) =>
          /\ ReqsAfter(queue', Len(queue)) = ReplayOf(subscriptions)
          /\ Len(queue') - Len(queue) = Cardinality(ReplayOf(subscriptions))]_vars

\* C2: when unsubscribe_with_internal_id(k) returns Ok the book has no entry
\* for k any more, and the same call made again returns InternalIdNotFound.
C2_UnsubscribeRemoves ==
    [][\A k \in InternalIds :
          (UnsubscribeWithInternalId(k)
              /\ unsubscribe_result(opts, subscriptions, queue, k) = "Ok")
          => /\ ~Has(subscriptions', k)
             /\ unsubscribe_result(opts, subscriptions', queue', k)
                    = "InternalIdNotFound"]_vars

\* C3: when send_event has enqueued its EVENT and this relay's Ok reply for the
\* event id was published on the bus before the call returned, the call returns
\* Ok for a reply with status true and EventNotPublished for status false,
\* never Timeout.
C3_SendEventGetsReply ==
    [][(se.pc \in {"sent", "recv"} /\ se'.pc = "done"
            /\ \E st \in BOOLEAN : <<se.id, st>> \in busReplies)
          => \E st \in BOOLEAN :
                /\ <<se.id, st>> \in busReplies
                /\ se'.result = IF st THEN "Ok" ELSE "EventNotPublished"]_vars

\* Whether this relay's Ok reply with status st for event e was published
Replied(e, st) == <<e, st>> \in busReplies

\* C4: batch_event returns Ok only if every event id of the batch got an Ok
\* reply with status true, PartialPublish only if every id got a reply and both
\* statuses occurred, and EventsNotPublished only if every id got a reply with
\* status false.
C4_BatchResultSound ==
    be.pc = "done" =>
       /\ be.result = "Ok" => \A e \in be.ids : Replied(e, TRUE)
       /\ be.result = "PartialPublish" =>
             /\ \A e \in be.ids : Replied(e, TRUE) \/ Replied(e, FALSE)
             /\ \E e \in be.ids : Replied(e, TRUE)
             /\ \E e \in be.ids : Replied(e, FALSE)
       /\ be.result = "EventsNotPublished" => \A e \in be.ids : Replied(e, FALSE)

\* C5: once a writer task has ended on a failed socket write, the status
\* eventually becomes Disconnected (no stop or terminate is requested in
\* FairSpec), so that the supervisor connects again.
C5_WriteFailureDisconnects ==
    \A c \in Conns : (writer[c] = "failed") ~> (status = "Disconnected")

\* C6: once the inbound stream of a Connected relay has ended, the status
\* eventually becomes Disconnected, whatever is queued ahead of the reader's
\* Close and whether or not it can still be written.
C6_StreamEndDisconnects ==
    \A c \in Conns :
        (status = "Connected" /\ sock[c] \in {"eof", "closed"} /\ reader[c] = "run")
            ~> (status = "Disconnected")

\* The case of C7: one connect(false), then one stop() made while Connected, no
\* terminate and no later connect
StoppedWhileConnected ==
    /\ calls.connect = 1
    /\ ~calls.wait
    /\ calls.stop = 1
    /\ calls.stopAt = "Connected"
    /\ calls.terminate = 0

\* C7: after connect(false) reached Connected and stop() was called with no
\* later connect or terminate, no connection attempt is made any more and a
\* status that has become Stopped stays Stopped.
C7_StopIsFinal ==
    [][StoppedWhileConnected' =>
          /\ attempts' = calls'.attemptsAtStop
          /\ (StoppedWhileConnected /\ status = "Stopped") => status' = "Stopped"]_vars

\* C8: a connect call made while the status is Connected, Connecting or
\* Disconnected changes neither the status, nor the intents, nor the command
\* queue, nor the running tasks.
C8_ConnectIsNoOp ==
    [][(calls'.connect # calls.connect
            /\ status \in {"Connected", "Connecting", "Disconnected"})
          => UNCHANGED <<status, scheduled_for_stop, scheduled_for_termination,
                         queue, sup, caller, writer, reader>>]_vars

\* A step of a connect call: the call itself, or the attempt connect(true) makes
ByConnectCall == calls'.connect # calls.connect \/ (caller = "try" /\ caller' # caller)

\* C9: every change of the status is an allowed transition: out of Initialized,
\* Stopped or Terminated to Connecting or Disconnected by a connect call;
\* Connecting to Connected or Disconnected; Connected to Disconnected;
\* Disconnected to Connecting; anything to Stopped (Terminated) while the stop
\* (terminate) intent is set.
C9_AllowedTransitions ==
    [][status' # status =>
          \/ /\ status \in {"Initialized", "Stopped", "Terminated"}
             /\ status' \in {"Connecting", "Disconnected"}
             /\ ByConnectCall
          \/ status = "Connecting" /\ status' \in {"Connected", "Disconnected"}
          \/ status = "Connected" /\ status' = "Disconnected"
          \/ status = "Disconnected" /\ status' = "Connecting"
          \/ status' = "Stopped" /\ scheduled_for_stop
          \/ status' = "Terminated" /\ scheduled_for_termination]_vars

\* C10: the frames on the wire follow the order in which the queue accepted
\* their commands: the numbers n never decrease, a command's frames are written
\* once, in order, by one task, and no frame of another command comes between
\* the frames of a Batch.
C10_WireOrder ==
    /\ wire # <<>> => wire[1][3] = 1
    /\ \A j \in 1..(Len(wire) - 1) :
          \/ wire[j][2] < wire[j + 1][2] /\ wire[j + 1][3] = 1
          \/ /\ wire[j][2] = wire[j + 1][2]
             /\ wire[j][1] = wire[j + 1][1]
             /\ wire[j + 1][3] = wire[j][3] + 1

\* C10 witness: a Batch and a SendMsg are both on the wire while a second
\* writer task waits for the receiver
C10_Witness ==
    /\ Len(wire) >= 3
    /\ \E j \in 1..Len(wire) : wire[j][3] = 2
    /\ \E c, d \in Conns : writer[c] = "run" /\ writer[d] = "wait"

\* C11: with nothing receiving from the command queue, a send_msg(m, None) that
\* passes the policy gate is accepted (the queue grows by its SendMsg) while
\* fewer than QueueCap commands are queued, and once QueueCap are queued it
\* returns MessageNotSent and leaves the queue as it is; the queue never holds
\* more than QueueCap commands.
C11_FullQueueRefuses ==
    [][\A m \in ApiMsgs :
          (SendMsg(m) /\ send_msg_gate(opts, m) = "Ok")
          => /\ Len(queue') <= QueueCap
             /\ IF Len(queue) < QueueCap
                THEN /\ queue' = Append(queue, SendMsgCmd(accepted + 1, m))
                     /\ calls'.err = calls.err
                ELSE /\ queue' = queue
                     /\ calls'.err = "MessageNotSent"]_vars

\* C11 witness: QueueCap send_msg calls were accepted, nothing else is queued,
\* and a further call has returned MessageNotSent
C11_Witness ==
    /\ Len(queue) = QueueCap
    /\ accepted = QueueCap
    /\ \A j \in 1..Len(queue) : queue[j].type = "SendMsg"
    /\ calls.err = "MessageNotSent"

\* C12: at most one writer task receives from the command queue, and every
\* frame is written to the socket of the most recent successful connection.
C12_WriterIsCurrent ==
    [][/\ Cardinality({c \in Conns : writer[c] = "run"}) <= 1
       /\ wire' # wire => wire'[Len(wire')][1] = success]_vars

\* C13: at most one supervisor task, at most one writer task and at most one
\* reader task are alive in every reachable state.
C13_OneTaskEach ==
    /\ SupCount <= 1
    /\ Cardinality({c \in Conns : writer[c] \in {"wait", "run"}}) <= 1
    /\ Cardinality({c \in Conns : reader[c] = "run"}) <= 1

\* The events 1..n in the order the relay sent them
FirstEvents(n) == [j \in 1..n |-> j]

\* C14: a get_events_of_with_callback with ExitOnEOSE that saw the EOSE of its
\* query and whose handle_events_of returned Ok gave the callback every event
\* the relay sent for the query's id before that EOSE, once each and in order.
C14_ExitOnEoseDeliversAll ==
    (ge.kind = "get" /\ ge.opt = ExitOnEOSE /\ ge.received_eose /\ ge.handled = "Ok")
    => ge.got = FirstEvents(peer.pre)

\* C15: a get_events_of_with_callback with WaitForEventsAfterEOSE(n) that saw
\* the EOSE of its query and whose handle_events_of returned Ok gave the
\* callback exactly n events after the EOSE, for every n from 0 upward.
C15_ExactlyNAfterEose ==
    (/\ ge.kind = "get"
     /\ ge.opt.type = "WaitForEventsAfterEOSE"
     /\ ge.received_eose
     /\ ge.handled = "Ok")
    => Len(ge.got) - ge.gotAtEose = ge.opt.n

\* The messages of a queued command
CmdMsgs(cmd) == {cmd.msgs[j] : j \in 1..Len(cmd.msgs)}

\* The kinds of the messages the queue holds
QueuedKinds(q) == {m.kind : m \in UNION {CmdMsgs(q[j]) : j \in 1..Len(q)}}

\* The error the policy has for a set of message kinds, if any
Refusal(o, kinds) ==
    IF ~o.write /\ "EVENT" \in kinds THEN "WriteDisabled"
    ELSE IF ~o.read /\ kinds \cap {"REQ", "CLOSE"} # {} THEN "ReadDisabled"
    ELSE "Ok"

\* C16: whatever operation takes the step, the queue of a relay that may not
\* write holds no EVENT and the queue of a relay that may not read holds no REQ
\* and no CLOSE afterwards; a send_msg or batch_msg the policy refuses returns
\* WriteDisabled or ReadDisabled and leaves the queue as it was.
C16_PolicyGate ==
    [][/\ Refusal(opts, QueuedKinds(queue')) = "Ok"
       /\ \A m \in ApiMsgs \cup {CloseMsg(0)} :
             (SendMsg(m) /\ Refusal(opts, {m.kind}) # "Ok")
             => queue' = queue /\ calls'.err = Refusal(opts, {m.kind})
       /\ \A ms \in ApiBatches :
             (BatchMsg(ms) /\ Refusal(opts, {ms[j].kind : j \in 1..Len(ms)}) # "Ok")
             => /\ queue' = queue
                /\ calls'.err = Refusal(opts, {ms[j].kind : j \in 1..Len(ms)})]_vars

\* A relay that may not read has refused a call with ReadDisabled while its
\* queue holds what it accepted: an EVENT
C16_Witness ==
    /\ ~opts.read
    /\ calls.err = "ReadDisabled"
    /\ "EVENT" \in QueuedKinds(queue)
    /\ ge.result = "ReadDisabled"

\* C17: no step changes the wire id of a book entry that exists before and
\* after it, and every REQ a successful connection attempt replays carries the
\* wire id and the filters of an entry of the book.
C17_WireIdStable ==
    [][/\ \A k \in InternalIds :
             (Has(subscriptions, k) /\ Has(subscriptions', k))
             => subscriptions'[k].id = subscriptions[k].id
       /\ success' = success + 1
             => ReqsAfter(queue', Len(queue)) \subseteq ReplayOf(subscriptions)]_vars

\* The default entry was subscribed with one filter list on the first
\* connection and updated to another; the second connection replayed it, and
\* both REQs went out with wire id 1
C17_Witness ==
    /\ subscriptions["default"] = [id |-> 1, filters |-> <<2>>]
    /\ \E j \in 1..Len(wire) : wire[j][1] = 1 /\ wire[j][4] = ReqMsg(1, <<1>>)
    /\ \E j \in 1..Len(wire) : wire[j][1] = 2 /\ wire[j][4] = ReqMsg(1, <<2>>)

\* C18: a subscribe_with_internal_id(k, f) with non-empty f on a relay that may
\* read leaves the book with an entry for k whose filters are f, and with every
\* other entry as it was.
C18_SubscribeSetsFilters ==
    [][\A k \in InternalIds, f \in FilterLists :
          (SubscribeUpdate(k, f) /\ opts.read /\ f # <<>>)
          => /\ Has(subscriptions', k)
             /\ subscriptions'[k].filters = f
             /\ \A x \in InternalIds \ {k} : subscriptions'[x] = subscriptions[x]]_vars

\* The default entry was subscribed with one filter list, which went out, and
\* then with another, next to the custom entry
C18_Witness ==
    /\ Has(subscriptions, "custom")
    /\ Has(subscriptions, "default")
    /\ subscriptions["default"].filters = <<2>>
    /\ \E j \in 1..Len(wire) : wire[j][4] = ReqMsg(subscriptions["default"].id, <<1>>)
    /\ subscriber = "default"

\* C19: no step of a get_events_of, get_events_of_with_callback or
\* req_events_of call changes the book, and no REQ that a successful connection
\* attempt replays after the call carries the wire id the call generated.
C19_QueryLeavesBook ==
    [][/\ ge' # ge => subscriptions' = subscriptions
       /\ (success' = success + 1 /\ ge.pc # "idle")
             => \A r \in ReqsAfter(queue', Len(queue)) : r.id # ge.id]_vars

\* A query was made on a relay whose book holds the default entry, and the
\* connection made afterwards replayed that entry behind the query's REQ
C19_Witness ==
    /\ Has(subscriptions, "default")
    /\ ge.id # 0
    /\ success = 1
    /\ Len(queue) = 2
    /\ queue[1].msgs = <<ReqMsg(ge.id, QueryFilters)>>
    /\ queue[2].msgs = <<ReqMsg(subscriptions["default"].id, subscriptions["default"].filters)>>

\* C20: in every reachable state the connections that succeeded are no more
\* than the attempts that were counted.
C20_SuccessAtMostAttempts == success <= attempts

\* The attempt of a connect(true) caller and the attempt of the supervisor were
\* in flight at the same time: the supervisor's has succeeded, the caller's
\* has been counted and is still in flight
C20_Witness ==
    /\ attempts = 2
    /\ success = 1
    /\ status = "Connected"
    /\ caller = "connecting"
    /\ SupCount = 1

\* C21: a string converted to an id is Default for "default", Pool for "pool"
\* and Custom of the string otherwise, and the id displays as the string; an
\* id that is Default, Pool or a Custom other than "default" and "pool",
\* displayed and converted back, is the same id.
C21_InternalIdRoundTrip ==
    LET v == calls.conv IN
    /\ (v.start = "text" /\ v.step >= 1)
       => v.id = IF v.text0 = "default" THEN IdDefault
                 ELSE IF v.text0 = "pool" THEN IdPool
                 ELSE IdCustom(v.text0)
    /\ (v.start = "text" /\ v.step = 2) => v.text = v.text0
    /\ (v.start = "id" /\ v.step = 2 /\ v.id0 \notin {IdCustom("default"), IdCustom("pool")})
       => v.id = v.id0

\* The id Pool was displayed and converted back
C21_Witness ==
    /\ calls.conv.start = "id"
    /\ calls.conv.step = 2
    /\ calls.conv.id0 = IdPool
    /\ calls.conv.text = "pool"

\* C22: a send_event that went on to wait for its reply and returned although
\* no Ok of this relay for its event was ever published on the bus returned
\* Timeout, and so did a batch_event of which some event got no such Ok.
C22_NoReplyMeansTimeout ==
    /\ (/\ se.pc = "done"
        /\ se.result \notin {"WriteDisabled", "ReadDisabled", "MessageNotSent"}
        /\ ~\E st \in BOOLEAN : Replied(se.id, st))
       => se.result = "Timeout"
    /\ (/\ be.pc = "done"
        /\ be.result \notin {"BatchEventEmpty", "WriteDisabled", "ReadDisabled",
                              "MessageNotSent"}
        /\ \E e \in be.ids : ~\E st \in BOOLEAN : Replied(e, st))
       => be.result = "Timeout"

\* C23: a writer that receives a Stop while the stop intent is not set, or a
\* Terminate while the terminate intent is not set, takes the command off the
\* queue and changes nothing else: the sockets, the status and both intents
\* stay as they are and the writer goes on receiving.
C23_StrayStopIgnored ==
    [][\A c \in Conns :
          (\/ WriterStop(c) /\ ~scheduled_for_stop
           \/ WriterTerminate(c) /\ ~scheduled_for_termination)
          => /\ queue' = Tail(queue)
             /\ UNCHANGED <<sock, status, intentVars, writer, cur, wire>>
             /\ writer[c] = "run"]_vars

\* The first connection's writer took a Stop that stop() had queued while
\* Connected, after a connect had cleared the intent: the relay is still
\* Connected on that connection and the writer still receives
C23_Witness ==
    /\ calls.stop = 1
    /\ calls.stopAt = "Connected"
    /\ calls.terminate = 0
    /\ accepted <= 1
    /\ success = 1
    /\ status = "Connected"
    /\ ~scheduled_for_stop
    /\ queue = <<>>
    /\ writer[1] = "run"
    /\ sock[1] = "open"

\* C24: whenever the status is Stopped or Terminated, the socket of the last
\* connection is not open and no writer task holds the receiver of the queue.
C24_StoppedMeansClosed ==
    status \in {"Stopped", "Terminated"}
    => /\ success > 0 => sock[success] # "open"
       /\ \A c \in Conns : writer[c] # "run"

\* C25: in every state where no supervisor and no writer task is running, the
\* stop intent and the terminate intent are both false.
C25_NoIntentWithoutTask ==
    (SupCount = 0 /\ \A c \in Conns : writer[c] \notin {"wait", "run"})
    => ~scheduled_for_stop /\ ~scheduled_for_termination

\* Whether the frame of the command numbered n is on the wire
Written(n) == \E j \in 1..Len(wire) : wire[j][2] = n

NextSubscribe ==
    \/ Connect(FALSE)
    \/ SupervisorTick
    \/ TryConnectBegin("sup")
    \/ TryConnectOk("sup")
    \/ \E f \in FilterLists : UpdateSubscriptionFilters("default", f)
    \/ \E f \in FilterLists : SubscribeUpdate("default", f)
    \/ SubscribeResubscribe
    \/ \E c \in Conns : WriterLock(c)
    \/ \E c \in Conns : WriterSendMsg(c)

SpecSubscribe == Init /\ [][NextSubscribe]_vars

\* connect, the supervisor, stop and terminate with try_connect taken statement
\* by statement, connect callable while an attempt is in flight; the tasks of a
\* connection are spawned and left alone
NextCount ==
    \/ \E wait \in BOOLEAN : Connect(wait)
    \/ SupervisorTick
    \/ \E who \in Runners : TryConnectNewAttempt(who)
    \/ \E who \in Runners : TryConnectSetConnecting(who)
    \/ \E who \in Runners : TryConnectSetConnected(who)
    \/ \E who \in Runners : TryConnectNewSuccess(who)
    \/ \E who \in Runners : TryConnectErr(who)
    \/ Stop
    \/ Terminate

SpecCount == Init /\ [][NextCount]_vars

\* The acceptance numbers of the commands, queued or written, that carry the
\* message m
Accepted(m) ==
    {queue[j].n : j \in {i \in 1..Len(queue) : queue[i].msgs = <<m>>}}
        \cup {wire[j][2] : j \in {i \in 1..Len(wire) : wire[i][4] = m}}

\* C27: a get_events_of_with_callback that returned Ok had exactly one REQ and
\* exactly one CLOSE of its wire id accepted by the queue, the REQ first; one
\* that has not returned or returned Timeout had no CLOSE of that id accepted.
C27_ReqThenClose ==
    ge.kind = "get"
    => /\ ge.result = "Ok"
             => /\ Cardinality(Accepted(ReqMsg(ge.id, QueryFilters))) = 1
                /\ Cardinality(Accepted(CloseMsg(ge.id))) = 1
                /\ \A r \in Accepted(ReqMsg(ge.id, QueryFilters)),
                      c \in Accepted(CloseMsg(ge.id)) : r < c
       /\ (ge.pc # "done" \/ ge.result = "Timeout")
             => Accepted(CloseMsg(ge.id)) = {}

\* A query returned Ok after three events, and its REQ and its CLOSE were both
\* written to the socket
C27_Witness ==
    /\ ge.kind = "get"
    /\ ge.result = "Ok"
    /\ Len(ge.got) = 3
    /\ \E j \in 1..Len(wire) : wire[j][4] = CloseMsg(ge.id)

\* The REQ messages accepted by the queue, still queued or already written
AcceptedReqs ==
    ReqsAfter(queue, 0)
        \cup {wire[j][4] : j \in {i \in 1..Len(wire) : wire[i][4].kind = "REQ"}}

\* C28: no REQ that subscribe or the replay on connect enqueues for an entry of
\* the book carries an empty filter list, whatever update_subscription_filters
\* calls on the same id run between their steps.
C28_NoEmptyReq ==
    \A m \in AcceptedReqs : m.filters # <<>>

\* C29: subscribe on a relay that may not read returns ReadDisabled, and
\* subscribe with an empty filter list on one that may returns FiltersEmpty;
\* either call leaves the book and the queue as they were.
C29_RefusedSubscribe ==
    [][\A f \in FilterLists :
          (SubscribeUpdate("default", f) /\ (~opts.read \/ f = <<>>))
          => /\ calls'.err = IF opts.read THEN "FiltersEmpty" ELSE "ReadDisabled"
             /\ subscriptions' = subscriptions
             /\ subscriber' = "none"
             /\ queue' = queue]_vars

\* A subscribe with an empty filter list was refused after an earlier one was
\* accepted: the book and the queue still hold what the earlier call left
C29_Witness ==
    /\ opts.read
    /\ calls.err = "FiltersEmpty"
    /\ subscriber = "none"
    /\ subscriptions["default"].filters = <<1>>
    /\ ReqsAfter(queue, 0) = {ReqMsg(subscriptions["default"].id, <<1>>)}

\* The entries of the book whose REQ, with the entry's wire id and filters, is
\* neither in the queue q nor on the wire w
Unrequested(book, q, w) ==
    {k \in InternalIds :
        /\ Has(book, k)
        /\ ReqMsg(book[k].id, book[k].filters) \notin
               ReqsAfter(q, 0)
                   \cup {w[j][4] : j \in {i \in 1..Len(w) : w[i][4].kind = "REQ"}}}

\* C30: when subscribe returns, the book, which only subscribe writes, holds
\* filters for an id only if the queue accepted the REQ that carries them; a
\* call that a full queue refuses leaves no entry without its REQ.
C30_BookIffReqAccepted ==
    [][SubscribeResubscribe => Unrequested(subscriptions', queue', wire') = {}]_vars

\* The CLOSE messages among the commands of q after the first `from`
ClosesAfter(q, from) ==
    {q[j].msgs[1] : j \in {i \in (from + 1)..Len(q) : q[i].msgs[1].kind = "CLOSE"}}

\* C31: when unsubscribe_all returns Ok it has enqueued one CLOSE for each
\* entry the book held, and the book is empty afterwards, so that a
\* connection made next would replay no REQ.
C31_UnsubscribeAllEmptiesBook ==
    [][(/\ UnsubscribeAll
        /\ opts.read
        /\ Len(queue') - Len(queue) = Cardinality(Keys(subscriptions)))
       => /\ ClosesAfter(queue', Len(queue))
                 = {CloseMsg(subscriptions[k].id) : k \in Keys(subscriptions)}
          /\ Keys(subscriptions') = {}
          /\ ReplayOf(subscriptions') = {}]_vars

\* The three sets of a batch_event call
BatchSets(call) == <<call.missing, call.published, call.not_published>>

\* The three sets are pairwise disjoint and make up the ids of the batch
Partitioned(call) ==
    /\ call.missing \cap call.published = {}
    /\ call.missing \cap call.not_published = {}
    /\ call.published \cap call.not_published = {}
    /\ call.missing \cup call.published \cup call.not_published = call.ids

\* The call has set up its sets: it is in its loop or has left it
InLoop(call) ==
    \/ call.pc = "recv"
    \/ /\ call.pc = "done"
       /\ call.result \in {"Ok", "PartialPublish", "EventsNotPublished", "Timeout"}

\* The outcome of recv() that the call takes next moves no id: an error, a
\* notification that is not an Ok of this relay, or an Ok for an id that is
\* not missing
MovesNothing(call, b) ==
    IF call.rx.lagged THEN TRUE
    ELSE ~(/\ IsOwnOk(next_notification(b, call.rx))
           /\ next_notification(b, call.rx).msg.id \in call.missing)

\* C32: once batch_event has set up missing, published and not_published they
\* are pairwise disjoint and their union is the set of ids of the batch after
\* every step, and a notification that is not an Ok of this relay for an id
\* still missing changes none of them.
C32_BatchSetsPartition ==
    [][/\ InLoop(be') => Partitioned(be')
       /\ (BatchEventRecv /\ MovesNothing(be, bus))
              => BatchSets(be') = BatchSets(be)]_vars

\* The call has taken the Ok of this relay for one id of its batch and then,
\* without effect, the Ok that another relay received; one id is still missing
C32_Witness ==
    /\ be.pc = "recv"
    /\ be.published # {}
    /\ be.missing # {}
    /\ be.rx = NoReceiver
    /\ bus # <<>>
    /\ ~bus[Len(bus)].own

\* The runners of try_connect that stand at pos
InFlight(s, c, pos) == s[pos] + (IF c = pos THEN 1 ELSE 0)

\* How an attempt ends: the Ok arm, entered with the status set to Connected,
\* increments success; the Err arm sets Disconnected and leaves success alone.
\* The transport is opened by runners whose attempt is counted.
AttemptEnds ==
    /\ \A who \in Runners :
          TryConnectNewSuccess(who)
          => success' = success + 1 /\ calls.connected > success
    /\ \A who \in Runners :
          TryConnectErr(who) => status' = "Disconnected" /\ success' = success
    /\ InFlight(sup', caller', "connecting") + InFlight(sup', caller', "connected")
          <= attempts' - success'

\* C33 as stated: after every step attempts is the number of times the status
\* was set to Connecting and success the number of times it was set to
\* Connected, and attempts end as AttemptEnds says.
C33_CountersEqualStatusSets ==
    [][/\ attempts' = calls'.connecting
       /\ success' = calls'.connected
       /\ AttemptEnds]_vars

\* C33 amended: attempts exceeds the number of times the status was set to
\* Connecting by the attempts that are counted and have not set it yet, and
\* the number of times it was set to Connected exceeds success by the attempts
\* that have set it and not counted the success yet; attempts end as
\* AttemptEnds says.
C33_CountersTrackStatusSets ==
    [][/\ attempts' = calls'.connecting + InFlight(sup', caller', "counted")
       /\ calls'.connected = success' + InFlight(sup', caller', "connected")
       /\ AttemptEnds]_vars

\* One attempt has succeeded and a second one is counted while the status has
\* been set to Connecting once
C33_Witness ==
    /\ attempts = 2
    /\ calls.connecting = 1
    /\ InFlight(sup, caller, "counted") = 1
    /\ success = 1
    /\ calls.connected = 1

====
